---- MODULE Spec2Model ----
(***************************************************************************)
(* Model of the image header parser of workers/image-parser.js and of the *)
(* two callers in workers/entry.js that wrap its result.                   *)
(*                                                                         *)
(* A buffer is a sequence of bytes (0..255).  JavaScript indexes it from   *)
(* 0, TLA+ from 1: byte i of the source is b[i + 1] here.                  *)
(***************************************************************************)
EXTENDS Integers, Sequences, FiniteSets, TLC

VARIABLES buf, pc, offset, marker, png, jpg, result, error, out,
          calls, seen, req, resp

vars == <<buf, pc, offset, marker, png, jpg, result, error, out, calls, seen, req, resp>>

\* ------------------------------------------------------------------ bounds
\* longest buffer of the exhaustive family over Alphabet
MaxLen == 4
\* number of leading pieces of a JPEG stream before its last segment
MaxSegs == 2
\* longest run of arbitrary bytes appended after a PNG header
MaxTrail == 1
\* number of successive calls of inspectImageBuffer
MaxCalls == 3

\* ------------------------------------------------------- nullable values
\* JavaScript null; a present value v is the one-element sequence <<v>>
Null == <<>>

Some(v) == <<v>>

\* the exception DataView raises for a read outside the view
RangeError == <<[error |-> "RangeError"]>>

\* --------------------------------------------------------- DataView reads
byteLength(b) == Len(b)

\* DataView.getUint8(off): defined only for off < byteLength
InBounds(b, off, n) == off >= 0 /\ off + n <= byteLength(b)

getUint8(b, off) == b[off + 1]

\* DataView.getUint16(off, littleEndian)
getUint16(b, off, littleEndian) ==
    IF littleEndian
    THEN b[off + 2] * 256 + b[off + 1]
    ELSE b[off + 1] * 256 + b[off + 2]

\* A JavaScript number n of the range -2^31..2^32-1 is held as the pair of
\* n \div 2^16 and n % 2^16: the model checker's integers are 32 bits wide and
\* cannot hold the upper half of the unsigned 32-bit range.
Num(hi, lo) == [hi |-> hi, lo |-> lo]

\* DataView.getUint32(off, littleEndian): an unsigned value in 0..2^32-1
getUint32(b, off, littleEndian) ==
    IF littleEndian
    THEN Num(b[off + 4] * 256 + b[off + 3], b[off + 2] * 256 + b[off + 1])
    ELSE Num(b[off + 1] * 256 + b[off + 2], b[off + 3] * 256 + b[off + 4])

readUint16BE(b, off) == getUint16(b, off, FALSE)

\* variant of readUint32BE that reads little-endian
readUint32LE(b, off) == getUint32(b, off, TRUE)

readUint32BE(b, off) == getUint32(b, off, FALSE)

\* ------------------------------------------------------------- parsePNG
PngMinLength == 24

sig == <<137, 80, 78, 71, 13, 10, 26, 10>>

chunkTypeOffset == 12

\* "IHDR" as the char codes String.fromCharCode receives
IHDR == <<73, 72, 68, 82>>

\* variant of SigMismatch that compares the first four signature bytes only
SigMismatchFirst4(b) == \E i \in 0..3 : getUint8(b, i) # sig[i + 1]

\* variant of SigMismatch that does not compare the first two signature bytes
SigMismatchFrom2(b) == \E i \in 2..(Len(sig) - 1) : getUint8(b, i) # sig[i + 1]

\* the signature loop of parsePNG: bytes[i] !== sig[i] for some i
SigMismatch(b) == \E i \in 0..(Len(sig) - 1) : getUint8(b, i) # sig[i + 1]

\* the chunk type read by four getUint8 calls
ChunkType(b) == <<getUint8(b, chunkTypeOffset), getUint8(b, chunkTypeOffset + 1),
                  getUint8(b, chunkTypeOffset + 2), getUint8(b, chunkTypeOffset + 3)>>

\* variant of parsePNG that asks for 16 bytes only
parsePNGMin16(b) ==
    IF byteLength(b) < 16 THEN Null
    ELSE IF SigMismatch(b) THEN Null
    ELSE IF ~InBounds(b, chunkTypeOffset, 4) THEN RangeError
    ELSE IF ChunkType(b) # IHDR THEN Null
    ELSE IF ~InBounds(b, 16, 4) \/ ~InBounds(b, 20, 4) THEN RangeError
    ELSE Some([format |-> "png",
               width  |-> readUint32BE(b, 16),
               height |-> readUint32BE(b, 20)])

\* variant of parsePNG that accepts an IHDR chunk only with declared length 13
parsePNGCheckedLength(b) ==
    IF byteLength(b) < PngMinLength THEN Null
    ELSE IF SigMismatch(b) THEN Null
    ELSE IF ~InBounds(b, 8, 4) THEN RangeError
    ELSE IF readUint32BE(b, 8) # Num(0, 13) THEN Null
    ELSE IF ~InBounds(b, chunkTypeOffset, 4) THEN RangeError
    ELSE IF ChunkType(b) # IHDR THEN Null
    ELSE IF ~InBounds(b, 16, 4) \/ ~InBounds(b, 20, 4) THEN RangeError
    ELSE Some([format |-> "png",
               width  |-> readUint32BE(b, 16),
               height |-> readUint32BE(b, 20)])

\* parsePNG, lines 32-52
parsePNG(b) ==
    IF byteLength(b) < PngMinLength THEN Null
    ELSE IF SigMismatch(b) THEN Null
    ELSE IF ~InBounds(b, chunkTypeOffset, 4) THEN RangeError
    ELSE IF ChunkType(b) # IHDR THEN Null
    ELSE IF ~InBounds(b, 16, 4) \/ ~InBounds(b, 20, 4) THEN RangeError
    ELSE Some([format |-> "png",
               width  |-> readUint32BE(b, 16),
               height |-> readUint32BE(b, 20)])

\* ------------------------------------------------------------ parseJPEG
\* variant of JPEG_SOF_MARKERS that takes every code C0..CF
JPEG_SOF_MARKERS_C0_CF == 192..207

JPEG_SOF_MARKERS == {192, 193, 194, 195, 197, 198, 199, 201, 202, 203, 205, 206, 207}

JpegMinLength == 4

EOI == 217

\* the SOI test of parseJPEG: bytes 0 and 1 are FF D8
HasSOI(b) == getUint8(b, 0) = 255 /\ getUint8(b, 1) = 216

\* lines 63-66: parseJPEG gives up before the scan
JpegRejected(b) == IF byteLength(b) < JpegMinLength THEN TRUE ELSE ~HasSOI(b)

\* the guard before the frame header is read
SofTruncated(off, len) == off + 5 >= len

\* ------------------------------------------------------- input buffers
\* all byte sequences over S of length at most n
SeqsUpTo(S, n) == UNION {[1..k -> S] : k \in 0..n}

\* every truncation of b, b itself included
Prefixes(b) == {SubSeq(b, 1, k) : k \in 0..Len(b)}

\* bytes of the exhaustive family: 00, 02, C0 (SOF0), D8 (SOI), D9 (EOI), FF
Alphabet == {0, 2, 192, 216, 217, 255}

SOI == <<255, 216>>

\* a marker segment: FF, marker code, 2-byte big-endian length, payload
Segment(m, l, body) == <<255, m, l \div 256, l % 256>> \o body

\* frame header payloads: precision, height (2), width (2), components
FrameA == <<8, 0, 100, 0, 200, 3, 1, 34, 0>>

FrameB == <<8, 1, 2, 3, 4, 1, 1, 17, 0>>

\* payload holding a byte pair that looks like a SOF0 segment
FrameInPayload == <<255, 192, 0, 11, 8, 0, 5, 0, 6>>

\* marker codes tried in the last segment: every SOF code, DHT (C4), JPG (C8),
\* DAC (CC), APP0 (E0), DQT (DB), RST0 (D0), SOI (D8), 00 and 01
TestedMarkers == JPEG_SOF_MARKERS \cup {196, 200, 204, 224, 219, 208, 216, 0, 1}

\* segment lengths tried: invalid (0, 1), empty (2), short (4), exactly the
\* frame header (7), the usual SOF length (11), beyond the buffer (258)
TestedLengths == {0, 1, 2, 4, 7, 11, 258}

\* pieces a stream is built from before its last segment: a padding FF, a
\* filler byte, EOI, a DHT segment, a SOF2 segment, an APP0 segment
LeadPieces ==
    { <<255>>, <<0>>, <<255, EOI>>,
      Segment(196, 4, <<0, 1>>),
      Segment(194, 11, FrameB),
      Segment(224, 11, FrameInPayload) }

\* last pieces of two segments: a segment with an invalid length (APP1 with
\* length 1, SOF0 with length 0) before a well-formed SOF, and a second SOI
\* before a well-formed SOF0
CompoundTails ==
    { Segment(225, 1, <<>>) \o Segment(192, 11, FrameA),
      Segment(192, 0, <<>>) \o Segment(193, 11, FrameB),
      <<255, 216>> \o Segment(192, 11, FrameA) }

\* the last piece of a stream
LastPieces ==
    { Segment(m, 11, FrameA) : m \in TestedMarkers }
    \cup { Segment(m, l, d) : m \in {192, 196}, l \in TestedLengths, d \in {FrameA, FrameB} }
    \cup { <<255, EOI>>, <<>> }
    \cup CompoundTails

RECURSIVE Leads(_)
Leads(k) ==
    IF k = 0 THEN {<<>>}
    ELSE Leads(k - 1) \cup {s \o p : s \in Leads(k - 1), p \in LeadPieces}

\* 4-byte words used as PNG width and height
DimWords == { <<0, 0, 1, 0>>, <<0, 0, 0, 200>>, <<0, 0, 0, 0>>,
              <<255, 255, 255, 255>>, <<128, 0, 0, 0>>, <<1, 2, 3, 4>> }

\* IHDR chunk-length fields: 13, 0, 2^32-1, and FF D8 FF C0
ChunkLengths == { <<0, 0, 0, 13>>, <<0, 0, 0, 0>>, <<255, 255, 255, 255>>,
                  <<255, 216, 255, 192>> }

\* s with byte i (from 0) replaced by v
WithByte(s, i, v) == [s EXCEPT ![i + 1] = v]

PngHeader(sg, cl, ty, w, h) == sg \o cl \o ty \o w \o h

\* well-formed 24-byte PNG headers
GoodPngHeaders ==
    { PngHeader(sig, cl, IHDR, w, h) : cl \in ChunkLengths, w \in DimWords, h \in DimWords }

\* headers with one signature byte or one chunk-type byte wrong, or IDAT first
BadPngHeaders ==
    { PngHeader(WithByte(sig, i, v), <<0, 0, 0, 13>>, IHDR, <<0, 0, 1, 0>>, <<0, 0, 0, 200>>) :
        i \in 0..7, v \in {0, 255} }
    \cup { PngHeader(sig, <<0, 0, 0, 13>>, WithByte(IHDR, i, 0), <<0, 0, 1, 0>>, <<0, 0, 0, 200>>) :
        i \in 0..3 }
    \cup { PngHeader(sig, <<0, 0, 0, 13>>, <<73, 68, 65, 84>>, <<0, 0, 1, 0>>, <<0, 0, 0, 200>>) }

\* what may follow a PNG header: arbitrary bytes, or a whole JPEG stream
PngTrailers ==
    SeqsUpTo(Alphabet, MaxTrail)
    \cup { SOI \o Segment(192, 11, FrameA), SOI \o Segment(192, 11, FrameA) \o <<255, EOI>> }

\* b is one of the buffers inspected: a short sequence over Alphabet, a
\* truncation of a JPEG-like stream SOI, leading pieces, last piece, a
\* truncation of a PNG header, or a PNG header followed by a trailer
IsInput(b) ==
    \/ b \in SeqsUpTo(Alphabet, MaxLen)
    \/ \E s \in Leads(MaxSegs), r \in LastPieces : b \in Prefixes(SOI \o s \o r)
    \/ \E hd \in GoodPngHeaders \cup BadPngHeaders : b \in Prefixes(hd)
    \/ \E hd \in GoodPngHeaders \cup BadPngHeaders, t \in PngTrailers : b = hd \o t

\* content-type headers of a fetched response (absent, or some value)
ContentTypes == {Null, Some("image/png"), Some("text/html")}

\* ------------------------------------------------------------------ state
\* pc: "call"      inspectImageBuffer entered, parsePNG not yet run
\*     "jpeg"      parsePNG returned null, parseJPEG entered
\*     "scan"      at the head of the while loop of parseJPEG
\*     "pad"       marker read, at the head of the padding loop
\*     "jpeg_ret"  parseJPEG returned jpg
\*     "ret"       inspectImageBuffer returned result, or threw error
\*     "url", "base64"  the caller of entry.js has built out
\*     "fetch"          the fetch handler of entry.js was called with req
\*     "done"           the fetch handler has returned resp
\* calls counts the calls of inspectImageBuffer made so far, seen holds the
\* buffer and outcome of every earlier call; req and resp are the request and
\* the response of the fetch handler
Init ==
    /\ IsInput(buf)
    /\ pc = "call"
    /\ offset = 0
    /\ marker = -1
    /\ png = Null
    /\ jpg = Null
    /\ result = Null
    /\ error = "none"
    /\ out = Null
    /\ calls = 1
    /\ seen = {}
    /\ req = Null
    /\ resp = Null

\* variant of MatchResult that reports a zero dimension as null
MatchResultFalsy(fmt, m, size) ==
    [format |-> fmt,
     width  |-> IF m.width = Num(0, 0) THEN Null ELSE Some(m.width),
     height |-> IF m.height = Num(0, 0) THEN Null ELSE Some(m.height),
     size   |-> size]

\* the record inspectImageBuffer returns for a match m of a detector
MatchResult(fmt, m, size) ==
    [format |-> fmt, width |-> Some(m.width), height |-> Some(m.height), size |-> size]

\* variant of UnknownResult that reports no size for an unparsed buffer
UnknownResultNoSize(size) ==
    [format |-> "unknown", width |-> Null, height |-> Null, size |-> 0]

UnknownResult(size) ==
    [format |-> "unknown", width |-> Null, height |-> Null, size |-> size]

\* an exception escapes parseJPEG and inspectImageBuffer
Throws ==
    /\ error' = "RangeError"
    /\ pc' = "ret"
    /\ UNCHANGED <<calls, seen, req, resp, buf, png, jpg, result, out>>

\* variant of InspectPNG that goes on to parseJPEG after a PNG match
InspectPNGFallThrough ==
    /\ pc = "call"
    /\ png' = parsePNG(buf)
    /\ pc' = "jpeg"
    /\ UNCHANGED <<calls, seen, req, resp, buf, offset, marker, jpg, result, error, out>>

\* inspectImageBuffer, lines 106-111: size, parsePNG, return on a match
InspectPNG ==
    /\ pc = "call"
    /\ LET p == parsePNG(buf)
           size == byteLength(buf)
       IN  IF p = RangeError
           THEN /\ error' = "RangeError"
                /\ pc' = "ret"
                /\ UNCHANGED <<png, result>>
           ELSE /\ png' = p
                /\ error' = error
                /\ IF p # Null
                   THEN /\ result' = MatchResult("png", p[1], size)
                        /\ pc' = "ret"
                   ELSE /\ result' = result
                        /\ pc' = "jpeg"
    /\ UNCHANGED <<calls, seen, req, resp, buf, offset, marker, jpg, out>>

\* parseJPEG, lines 62-66: too short or no SOI
ParseJPEGReject ==
    /\ pc = "jpeg"
    /\ JpegRejected(buf)
    /\ jpg' = Null
    /\ pc' = "jpeg_ret"
    /\ UNCHANGED <<calls, seen, req, resp, buf, offset, marker, png, result, error, out>>

\* variant of ParseJPEGStart for a cursor kept at module level and set once
ParseJPEGStartStale ==
    /\ pc = "jpeg"
    /\ ~JpegRejected(buf)
    /\ offset' = IF offset >= 2 THEN offset ELSE 2
    /\ pc' = "scan"
    /\ UNCHANGED <<calls, seen, req, resp, buf, marker, png, jpg, result, error, out>>

\* parseJPEG, line 67: the scan starts after SOI
ParseJPEGStart ==
    /\ pc = "jpeg"
    /\ ~JpegRejected(buf)
    /\ offset' = 2
    /\ pc' = "scan"
    /\ UNCHANGED <<calls, seen, req, resp, buf, marker, png, jpg, result, error, out>>

\* line 68 false, line 98: the cursor is at or past the end
ScanEnd ==
    /\ pc = "scan"
    /\ ~(offset < byteLength(buf))
    /\ jpg' = Null
    /\ pc' = "jpeg_ret"
    /\ UNCHANGED <<calls, seen, req, resp, buf, offset, marker, png, result, error, out>>

\* lines 70-73: a byte other than FF is stepped over
ScanSkipByte ==
    /\ pc = "scan"
    /\ offset < byteLength(buf)
    /\ getUint8(buf, offset) # 255
    /\ offset' = offset + 1
    /\ UNCHANGED <<calls, seen, req, resp, buf, pc, marker, png, jpg, result, error, out>>

\* view.getUint8(off + 1) of lines 75 and 78, with the cursor moved to off
ReadMarker(off) ==
    IF InBounds(buf, off + 1, 1)
    THEN /\ marker' = getUint8(buf, off + 1)
         /\ offset' = off
         /\ pc' = "pad"
         /\ UNCHANGED <<calls, seen, req, resp, buf, png, jpg, result, error, out>>
    ELSE /\ offset' = off
         /\ marker' = marker
         /\ Throws

\* line 75: FF found, the byte after it is read as the marker
ScanMarker ==
    /\ pc = "scan"
    /\ offset < byteLength(buf)
    /\ getUint8(buf, offset) = 255
    /\ ReadMarker(offset)

\* variant of PadSkip that steps over two bytes per iteration
PadSkipTwo ==
    /\ pc = "pad"
    /\ marker = 255
    /\ ReadMarker(offset + 2)

\* lines 76-79: one iteration of the padding loop
PadSkip ==
    /\ pc = "pad"
    /\ marker = 255
    /\ ReadMarker(offset + 1)

\* parseJPEG leaves the loop by break and returns null at line 98
Break(off) ==
    /\ offset' = off
    /\ jpg' = Null
    /\ pc' = "jpeg_ret"
    /\ UNCHANGED <<calls, seen, req, resp, buf, marker, png, result, error, out>>

\* variant of SegEOI that steps over EOI and keeps scanning
SegEOIContinue ==
    /\ pc = "pad"
    /\ marker # 255
    /\ marker = EOI
    /\ offset' = offset + 2
    /\ pc' = "scan"
    /\ UNCHANGED <<calls, seen, req, resp, buf, marker, png, jpg, result, error, out>>

\* lines 80-82: EOI ends the scan
SegEOI ==
    /\ pc = "pad"
    /\ marker # 255
    /\ marker = EOI
    /\ Break(offset + 2)

\* line 83: the length field does not fit in the buffer
SegNoLength ==
    /\ pc = "pad"
    /\ marker # 255
    /\ marker # EOI
    /\ offset + 2 + 2 > byteLength(buf)
    /\ Break(offset + 2)

\* the segment whose length field is in the buffer
AtSegment ==
    /\ pc = "pad"
    /\ marker # 255
    /\ marker # EOI
    /\ ~(offset + 2 + 2 > byteLength(buf))

\* variant of SegBadLength that takes the segment as empty and scans on
SegBadLengthSkip ==
    /\ AtSegment
    /\ readUint16BE(buf, offset + 2) < 2
    /\ offset' = offset + 2 + 2
    /\ pc' = "scan"
    /\ UNCHANGED <<calls, seen, req, resp, buf, marker, png, jpg, result, error, out>>

\* lines 84-85: a length below 2 fails the scan
SegBadLength ==
    /\ AtSegment
    /\ readUint16BE(buf, offset + 2) < 2
    /\ Break(offset + 2)

\* lines 87-89: a frame header that does not fit fails the scan
SegSOFTruncated ==
    /\ AtSegment
    /\ ~(readUint16BE(buf, offset + 2) < 2)
    /\ marker \in JPEG_SOF_MARKERS
    /\ SofTruncated(offset + 2, byteLength(buf))
    /\ Break(offset + 2)

\* variant of SegSOF that notes the frame and keeps scanning for a later one
SegSOFContinue ==
    /\ AtSegment
    /\ ~(readUint16BE(buf, offset + 2) < 2)
    /\ marker \in JPEG_SOF_MARKERS
    /\ ~SofTruncated(offset + 2, byteLength(buf))
    /\ LET off == offset + 2
       IN  IF InBounds(buf, off + 2, 1) /\ InBounds(buf, off + 3, 2) /\ InBounds(buf, off + 5, 2)
           THEN /\ jpg' = Some([format |-> "jpeg",
                                width  |-> Num(0, readUint16BE(buf, off + 5)),
                                height |-> Num(0, readUint16BE(buf, off + 3))])
                /\ offset' = off + readUint16BE(buf, off)
                /\ pc' = "scan"
                /\ UNCHANGED <<calls, seen, req, resp, buf, marker, png, result, error, out>>
           ELSE /\ offset' = off
                /\ marker' = marker
                /\ Throws

\* lines 90-93: precision, height and width are read and returned
SegSOF ==
    /\ AtSegment
    /\ ~(readUint16BE(buf, offset + 2) < 2)
    /\ marker \in JPEG_SOF_MARKERS
    /\ ~SofTruncated(offset + 2, byteLength(buf))
    /\ LET off == offset + 2
       IN  IF InBounds(buf, off + 2, 1) /\ InBounds(buf, off + 3, 2) /\ InBounds(buf, off + 5, 2)
           THEN /\ jpg' = Some([format |-> "jpeg",
                                width  |-> Num(0, readUint16BE(buf, off + 5)),
                                height |-> Num(0, readUint16BE(buf, off + 3))])
                /\ offset' = off
                /\ pc' = "jpeg_ret"
                /\ UNCHANGED <<calls, seen, req, resp, buf, marker, png, result, error, out>>
           ELSE /\ offset' = off
                /\ marker' = marker
                /\ Throws

\* variant of SegSkip that takes the length as an absolute position
SegSkipAbsolute ==
    /\ AtSegment
    /\ ~(readUint16BE(buf, offset + 2) < 2)
    /\ marker \notin JPEG_SOF_MARKERS
    /\ offset' = readUint16BE(buf, offset + 2)
    /\ pc' = "scan"
    /\ UNCHANGED <<calls, seen, req, resp, buf, marker, png, jpg, result, error, out>>

\* variant of SegSkip that steps over the length field only
SegSkipLengthField ==
    /\ AtSegment
    /\ ~(readUint16BE(buf, offset + 2) < 2)
    /\ marker \notin JPEG_SOF_MARKERS
    /\ offset' = offset + 2 + 2
    /\ pc' = "scan"
    /\ UNCHANGED <<calls, seen, req, resp, buf, marker, png, jpg, result, error, out>>

\* lines 95-96: any other segment is skipped by its length
SegSkip ==
    /\ AtSegment
    /\ ~(readUint16BE(buf, offset + 2) < 2)
    /\ marker \notin JPEG_SOF_MARKERS
    /\ offset' = offset + 2 + readUint16BE(buf, offset + 2)
    /\ pc' = "scan"
    /\ UNCHANGED <<calls, seen, req, resp, buf, marker, png, jpg, result, error, out>>

\* inspectImageBuffer, lines 112-114: jpeg on a match, unknown otherwise
InspectJPEG ==
    /\ pc = "jpeg_ret"
    /\ result' = IF jpg # Null
                 THEN MatchResult("jpeg", jpg[1], byteLength(buf))
                 ELSE UnknownResult(byteLength(buf))
    /\ pc' = "ret"
    /\ UNCHANGED <<calls, seen, req, resp, buf, offset, marker, png, jpg, error, out>>

\* variant of MimeOf that prefers the value supplied by the caller
MimeOfHeaderFirst(fmt, fallback) ==
    IF fallback # Null THEN fallback
    ELSE IF fmt = "png" THEN Some("image/png")
    ELSE IF fmt = "jpeg" THEN Some("image/jpeg")
    ELSE Null

\* the mime of a result: from the format, else the fallback of the caller
MimeOf(fmt, fallback) ==
    IF fmt = "png" THEN Some("image/png")
    ELSE IF fmt = "jpeg" THEN Some("image/jpeg")
    ELSE fallback

\* inspectFromUrl, lines 57-68, for a response body buf with header ct
InspectFromUrl(ct) ==
    /\ pc = "ret"
    /\ out' = IF error = "none"
              THEN [format |-> result.format, width |-> result.width,
                    height |-> result.height, size |-> byteLength(buf),
                    mime |-> MimeOf(result.format, ct)]
              ELSE Null
    /\ pc' = "url"
    /\ UNCHANGED <<calls, seen, req, resp, buf, offset, marker, png, jpg, result, error>>

\* inspectFromBase64, lines 74-82, for the decoded bytes buf
InspectFromBase64 ==
    /\ pc = "ret"
    /\ out' = IF error = "none"
              THEN [format |-> result.format, width |-> result.width,
                    height |-> result.height, size |-> result.size,
                    mime |-> MimeOf(result.format, Null)]
              ELSE Null
    /\ pc' = "base64"
    /\ UNCHANGED <<calls, seen, req, resp, buf, offset, marker, png, jpg, result, error>>

Next ==
    \/ InspectPNG
    \/ ParseJPEGReject
    \/ ParseJPEGStart
    \/ ScanEnd
    \/ ScanSkipByte
    \/ ScanMarker
    \/ PadSkip
    \/ SegEOI
    \/ SegNoLength
    \/ SegBadLength
    \/ SegSOFTruncated
    \/ SegSOF
    \/ SegSkip
    \/ InspectJPEG
    \/ \E ct \in ContentTypes : InspectFromUrl(ct)
    \/ InspectFromBase64

Spec == Init /\ [][Next]_vars

\* ------------------------------------------------------ successive calls
\* what a finished call gave its caller: the record, or null after a throw
Outcome == IF error = "none" THEN Some(result) ELSE Null

\* the buffers of successive calls: short sequences over Alphabet, truncations
\* of one-segment streams, and PNG headers
IsRepeatInput(b) ==
    \/ b \in SeqsUpTo(Alphabet, MaxLen)
    \/ \E r \in LastPieces : b \in Prefixes(SOI \o r)
    \/ b \in { PngHeader(sig, <<0, 0, 0, 13>>, IHDR, w, <<0, 0, 0, 200>>) : w \in DimWords }

InitCalls ==
    /\ IsRepeatInput(buf)
    /\ pc = "call"
    /\ offset = 0
    /\ marker = -1
    /\ png = Null
    /\ jpg = Null
    /\ result = Null
    /\ error = "none"
    /\ out = Null
    /\ calls = 1
    /\ seen = {}
    /\ req = Null
    /\ resp = Null

\* a buffer that leaves the cursor of parseJPEG far from its start
OtherBuffer == SOI \o <<0, 0, 0>> \o Segment(192, 11, FrameA)

\* inspectImageBuffer is called again, lines 105-109, on b: the bytes of this
\* call, of an earlier call, or OtherBuffer.  The locals of the finished call
\* (png, jpg, offset, marker) are not in scope of the new call, which declares
\* and assigns each before reading it; they keep their old values here.
CallAgain(b) ==
    /\ pc = "ret"
    /\ calls < MaxCalls
    /\ b \in {buf, OtherBuffer} \cup {h.buf : h \in seen}
    /\ seen' = seen \cup {[buf |-> buf, outcome |-> Outcome]}
    /\ calls' = calls + 1
    /\ buf' = b
    /\ pc' = "call"
    /\ result' = Null
    /\ error' = "none"
    /\ UNCHANGED <<offset, marker, png, jpg, out, req, resp>>

NextCalls ==
    \/ InspectPNG
    \/ ParseJPEGReject
    \/ ParseJPEGStart
    \/ ScanEnd
    \/ ScanSkipByte
    \/ ScanMarker
    \/ PadSkip
    \/ SegEOI
    \/ SegNoLength
    \/ SegBadLength
    \/ SegSOFTruncated
    \/ SegSOF
    \/ SegSkip
    \/ InspectJPEG
    \/ \E b \in {buf, OtherBuffer} \cup {h.buf : h \in seen} : CallAgain(b)

SpecCalls == InitCalls /\ [][NextCalls]_vars

\* ------------------------------------------------------ the fetch handler
\* JavaScript values of a JSON body: t is the type, v the value as text
Undefined == [t |-> "undefined", v |-> ""]
JsNull == [t |-> "null", v |-> ""]
NumV(n) == [t |-> "number", v |-> n]
Str(x) == [t |-> "string", v |-> x]

\* !!x
Truthy(x) ==
    CASE x.t \in {"undefined", "null"} -> FALSE
      [] x.t = "number" -> x.v # "0"
      [] x.t = "string" -> x.v # ""
      [] OTHER -> TRUE

typeof(x) == IF x.t = "null" THEN "object" ELSE x.t

\* a && b
And(a, b) == IF Truthy(a) THEN b ELSE a

\* header values are sequences of pieces; s.includes(piece)
Includes(s, piece) == \E i \in 1..Len(s) : s[i] = piece

\* values of the content-type request header; absent is the empty string
RequestContentTypes ==
    { <<>>,
      <<"application/json">>,
      <<"application/json", "; charset=utf-8">>,
      <<"text/plain">>,
      <<"Application/JSON">> }

\* values of params.url and params.base64
UrlValues == { Undefined, NumV("5"), Str("not a url"), Str("https://example.com/a") }
Base64Values == { Undefined, NumV("5"), Str("%"), Str("data:image/png;base64,AA==") }

\* values of body.params: scalars, whose properties are undefined, and objects
ParamsValues ==
    { [t |-> x.t, v |-> x.v, url |-> Undefined, base64 |-> Undefined] :
          x \in {Undefined, JsNull, NumV("5"), Str("x")} }
    \cup { [t |-> "object", v |-> "", url |-> u, base64 |-> b] :
          u \in UrlValues, b \in Base64Values }

MethodValues ==
    { Undefined, JsNull, NumV("5"), Str(""), Str("inspect_image_asset"),
      Str("get_system_status"), Str("other") }

NoParams == [t |-> "undefined", v |-> "", url |-> Undefined, base64 |-> Undefined]

\* request bodies: text that is not JSON, JSON scalars, JSON objects
Bodies ==
    { [t |-> "invalid", v |-> "", method |-> Undefined, params |-> NoParams] }
    \cup { [t |-> x.t, v |-> x.v, method |-> Undefined, params |-> NoParams] :
          x \in {JsNull, NumV("0"), NumV("5"), Str("x")} }
    \cup { [t |-> "object", v |-> "", method |-> m, params |-> q] :
          m \in MethodValues, q \in ParamsValues }

Requests ==
    [ httpMethod : {"POST", "GET"}, contentType : RequestContentTypes, body : Bodies ]

\* the bytes a fetched URL serves or a base64 string decodes to
Payloads ==
    SeqsUpTo({0, 216, 255}, MaxLen)
    \cup UNION { Prefixes(SOI \o r) : r \in LastPieces }
    \cup { PngHeader(sig, <<0, 0, 0, 13>>, IHDR, w, <<0, 0, 0, 200>>) : w \in DimWords }

InitFetch ==
    /\ req \in Requests
    /\ buf = <<>>
    /\ pc = "fetch"
    /\ offset = 0
    /\ marker = -1
    /\ png = Null
    /\ jpg = Null
    /\ result = Null
    /\ error = "none"
    /\ out = Null
    /\ calls = 1
    /\ seen = {}
    /\ resp = Null

\* jsonResponse, lines 22-27, returned by the handler
Respond(status, ok, message) ==
    /\ resp' = [status |-> status, ok |-> ok, error |-> message]
    /\ pc' = "done"
    /\ UNCHANGED <<calls, seen, req, buf, offset, marker, png, jpg, result, error, out>>

\* parseJsonRequest, lines 31-32
IsJson == Includes(req.contentType, "application/json")

\* parseJsonRequest returned a payload, lines 30-42 and 95
Parsed == req.httpMethod = "POST" /\ IsJson /\ req.body.t # "invalid"

\* lines 100 and 101
method == And(req.body, req.body.method)
params == And(req.body, req.body.params)

\* line 103
HasMethod == Truthy(method) /\ typeof(method) = "string"

\* lines 107-108
InspectAccepted ==
    /\ Parsed
    /\ HasMethod
    /\ method.v = "inspect_image_asset"
    /\ Truthy(params)
    /\ (typeof(params.url) = "string" \/ typeof(params.base64) = "string")

\* line 113
ByUrl == typeof(params.url) = "string"

\* new URL(url) does not throw, lines 47-51
ValidUrl(u) == u.v = "https://example.com/a"

\* atob does not throw, line 19 of image-parser.js
Decodable(x) == x.v = "data:image/png;base64,AA=="

\* variant of HandlerNotPost that answers 400
HandlerNotPostBadRequest ==
    /\ pc = "fetch"
    /\ req.httpMethod # "POST"
    /\ Respond(400, FALSE, "Only POST requests are allowed")

\* lines 89-91
HandlerNotPost ==
    /\ pc = "fetch"
    /\ req.httpMethod # "POST"
    /\ Respond(405, FALSE, "Only POST requests are allowed")

\* lines 32-34 and 96-98
HandlerBadContentType ==
    /\ pc = "fetch"
    /\ req.httpMethod = "POST"
    /\ ~IsJson
    /\ Respond(400, FALSE, "Content-Type must be application/json")

\* lines 36-40 and 96-98
HandlerInvalidJson ==
    /\ pc = "fetch"
    /\ req.httpMethod = "POST"
    /\ IsJson
    /\ req.body.t = "invalid"
    /\ Respond(400, FALSE, "Invalid JSON body")

\* lines 103-105
HandlerNoMethod ==
    /\ pc = "fetch"
    /\ Parsed
    /\ ~HasMethod
    /\ Respond(400, FALSE, "Missing or invalid 'method' field")

\* lines 107-110
HandlerInspectNoParams ==
    /\ pc = "fetch"
    /\ Parsed
    /\ HasMethod
    /\ method.v = "inspect_image_asset"
    /\ ~InspectAccepted
    /\ Respond(400, FALSE, "inspect_image_asset requires either 'url' or 'base64' param")

\* inspectFromUrl, lines 47-51, caught at lines 120-123
HandlerInvalidUrl ==
    /\ pc = "fetch"
    /\ InspectAccepted
    /\ ByUrl
    /\ ~ValidUrl(params.url)
    /\ Respond(400, FALSE, "Invalid URL")

\* inspectFromUrl, lines 53-57: fetch rejects, the response is not ok, or
\* reading its body rejects; caught at lines 120-123, where only the thrown
\* object of line 55 has a status
HandlerFetchFails(failure) ==
    /\ pc = "fetch"
    /\ InspectAccepted
    /\ ByUrl
    /\ ValidUrl(params.url)
    /\ failure \in {"fetch failed", "Failed to fetch resource", "body failed"}
    /\ Respond(400, FALSE, failure)

\* inspectFromUrl, lines 53-58: the response body is handed to inspectImageBuffer
HandlerFetched ==
    /\ pc = "fetch"
    /\ InspectAccepted
    /\ ByUrl
    /\ ValidUrl(params.url)
    /\ buf' \in Payloads
    /\ pc' = "call"
    /\ UNCHANGED <<calls, seen, req, resp, offset, marker, png, jpg, result, error, out>>

\* inspectFromBase64, line 74: atob throws; caught at lines 120-123
HandlerAtobFails ==
    /\ pc = "fetch"
    /\ InspectAccepted
    /\ ~ByUrl
    /\ ~Decodable(params.base64)
    /\ Respond(400, FALSE, "InvalidCharacterError")

\* inspectFromBase64, lines 74-75: the decoded bytes are handed to inspectImageBuffer
HandlerDecoded ==
    /\ pc = "fetch"
    /\ InspectAccepted
    /\ ~ByUrl
    /\ Decodable(params.base64)
    /\ buf' \in Payloads
    /\ pc' = "call"
    /\ UNCHANGED <<calls, seen, req, resp, offset, marker, png, jpg, result, error, out>>

\* line 114: the rest of inspectFromUrl
HandlerInspectFromUrl(ct) ==
    /\ pc = "ret"
    /\ ByUrl
    /\ InspectFromUrl(ct)

\* line 116: the rest of inspectFromBase64
HandlerInspectFromBase64 ==
    /\ pc = "ret"
    /\ ~ByUrl
    /\ InspectFromBase64

\* lines 118-123: the result is answered, an exception of inspectImageBuffer
\* is caught and, having no status, answered with 400
HandlerInspected ==
    /\ pc \in {"url", "base64"}
    /\ IF error = "none"
       THEN Respond(200, TRUE, "")
       ELSE Respond(400, FALSE, error)

\* lines 127-139
HandlerStatus ==
    /\ pc = "fetch"
    /\ Parsed
    /\ HasMethod
    /\ method.v = "get_system_status"
    /\ Respond(200, TRUE, "")

\* line 142
HandlerUnknownMethod ==
    /\ pc = "fetch"
    /\ Parsed
    /\ HasMethod
    /\ method.v \notin {"inspect_image_asset", "get_system_status"}
    /\ Respond(400, FALSE, "unknown method")

\* the handler of lines 86-148; nothing thrown inside the try of line 88
\* reaches the catch of line 143
NextFetch ==
    \/ HandlerNotPost
    \/ HandlerBadContentType
    \/ HandlerInvalidJson
    \/ HandlerNoMethod
    \/ HandlerInspectNoParams
    \/ HandlerInvalidUrl
    \/ \E failure \in {"fetch failed", "Failed to fetch resource", "body failed"} :
           HandlerFetchFails(failure)
    \/ HandlerFetched
    \/ HandlerAtobFails
    \/ HandlerDecoded
    \/ InspectPNG
    \/ ParseJPEGReject
    \/ ParseJPEGStart
    \/ ScanEnd
    \/ ScanSkipByte
    \/ ScanMarker
    \/ PadSkip
    \/ SegEOI
    \/ SegNoLength
    \/ SegBadLength
    \/ SegSOFTruncated
    \/ SegSOF
    \/ SegSkip
    \/ InspectJPEG
    \/ \E ct \in ContentTypes : HandlerInspectFromUrl(ct)
    \/ HandlerInspectFromBase64
    \/ HandlerInspected
    \/ HandlerStatus
    \/ HandlerUnknownMethod

\* every awaited promise settles and every step of the handler is taken
SpecFetch == InitFetch /\ [][NextFetch]_vars /\ WF_vars(NextFetch)

\* ------------------------------------------------------ both detectors
\* a PNG header whose first two bytes are replaced by FF D8, then a SOF0 segment
HybridBuffers ==
    { WithByte(WithByte(PngHeader(sig, cl, IHDR, <<0, 0, 1, 0>>, <<0, 0, 0, 200>>), 0, 255), 1, 216)
          \o Segment(192, 11, FrameA) : cl \in ChunkLengths }

\* the buffers both exported detectors are applied to: those of IsRepeatInput,
\* PNG headers followed by a trailer, and the hybrid buffers
IsDetectorInput(b) ==
    \/ IsRepeatInput(b)
    \/ \E cl \in ChunkLengths, t \in PngTrailers :
           b = PngHeader(sig, cl, IHDR, <<0, 0, 1, 0>>, <<0, 0, 0, 200>>) \o t
    \/ \E hd \in BadPngHeaders : b = hd \o SOI \o Segment(192, 11, FrameA)
    \/ b \in HybridBuffers

InitDetectors ==
    /\ IsDetectorInput(buf)
    /\ pc = "call"
    /\ offset = 0
    /\ marker = -1
    /\ png = Null
    /\ jpg = Null
    /\ result = Null
    /\ error = "none"
    /\ out = Null
    /\ calls = 1
    /\ seen = {}
    /\ req = Null
    /\ resp = Null

\* parsePNG, lines 32-52, applied to buf; parseJPEG is applied to buf next,
\* whatever parsePNG returned
DetectPNG ==
    /\ pc = "call"
    /\ LET p == parsePNG(buf)
       IN  IF p = RangeError
           THEN /\ png' = png
                /\ Throws
                /\ UNCHANGED <<offset, marker>>
           ELSE /\ png' = p
                /\ pc' = "jpeg"
                /\ UNCHANGED <<calls, seen, req, resp, buf, offset, marker, jpg, result, error, out>>

\* lines 110-114 on the values of both detectors: png on a PNG match, else
\* jpeg on a JPEG match, else unknown
DetectReturn ==
    /\ pc = "jpeg_ret"
    /\ result' = IF png # Null THEN MatchResult("png", png[1], byteLength(buf))
                 ELSE IF jpg # Null THEN MatchResult("jpeg", jpg[1], byteLength(buf))
                 ELSE UnknownResult(byteLength(buf))
    /\ pc' = "ret"
    /\ UNCHANGED <<calls, seen, req, resp, buf, offset, marker, png, jpg, error, out>>

NextDetectors ==
    \/ DetectPNG
    \/ ParseJPEGReject
    \/ ParseJPEGStart
    \/ ScanEnd
    \/ ScanSkipByte
    \/ ScanMarker
    \/ PadSkip
    \/ SegEOI
    \/ SegNoLength
    \/ SegBadLength
    \/ SegSOFTruncated
    \/ SegSOF
    \/ SegSkip
    \/ DetectReturn

SpecDetectors == InitDetectors /\ [][NextDetectors]_vars

\* every step of the synchronous call that can be taken is taken
FairSpec == Spec /\ WF_vars(Next)

\* ------------------------------------------------------------ type check
TypeOK ==
    /\ buf \in Seq(0..255)
    /\ pc \in {"call", "jpeg", "scan", "pad", "jpeg_ret", "ret", "url", "base64",
              "fetch", "done"}
    /\ offset \in Nat
    /\ marker \in -1..255
    /\ error \in {"none", "RangeError"}

\* ------------------------------------------------------------ properties
\* inspectImageBuffer has returned a record (it did not throw)
Returned == pc \in {"ret", "url", "base64"} /\ error = "none"

\* b begins with the bytes p
StartsWith(b, p) == IF Len(b) < Len(p) THEN FALSE ELSE SubSeq(b, 1, Len(p)) = p

\* the bytes of b from index i (from 0), n of them
Bytes(b, i, n) == SubSeq(b, i + 1, i + n)

\* C1: for every byte sequence inspectImageBuffer returns a record and never
\* throws: no out-of-range read of parsePNG or parseJPEG escapes.
C1_NeverThrows == error = "none"

\* C2: whenever inspectImageBuffer returns, for each outcome png, jpeg or
\* unknown, result.size is the byte length of the buffer, and the size reported
\* by inspectFromUrl and inspectFromBase64 is that value.
C2_SizeIsByteLength ==
    /\ Returned => result.size = Len(buf)
    /\ (pc \in {"url", "base64"} /\ error = "none") =>
           (out.size = Len(buf) /\ out.size = result.size)

C2_Witness ==
    /\ pc = "url"
    /\ error = "none"
    /\ result.format = "unknown"
    /\ Len(buf) > 4
    /\ out.size = Len(buf)

\* the number n is an integer of 0..2^32-1
IsUint32(n) == n.hi \in 0..65535 /\ n.lo \in 0..65535

\* C3: every returned record has format png, jpeg or unknown; width and height
\* are null together, exactly when format is unknown, and are non-negative
\* integers otherwise (a zero dimension is 0, not null).
C3_FormatAndDimensions ==
    Returned =>
        /\ result.format \in {"png", "jpeg", "unknown"}
        /\ (result.width = Null) <=> (result.height = Null)
        /\ (result.format = "unknown") <=> (result.width = Null)
        /\ result.format \in {"png", "jpeg"} =>
               /\ Len(result.width) = 1 /\ IsUint32(result.width[1])
               /\ Len(result.height) = 1 /\ IsUint32(result.height[1])

C3_Witness ==
    /\ Returned
    /\ result.format = "png"
    /\ result.width = Some(Num(0, 0))
    /\ result.height = Some(Num(0, 200))

\* the three conditions of the PNG contract, on the bytes themselves
PngContract(b) ==
    IF Len(b) < 24 THEN FALSE
    ELSE /\ Bytes(b, 0, 8) = <<137, 80, 78, 71, 13, 10, 26, 10>>
         /\ Bytes(b, 12, 4) = <<73, 72, 68, 82>>

\* C4: parsePNG returns a record iff the buffer has at least 24 bytes, bytes
\* 0..7 are the PNG signature and bytes 12..15 are 'IHDR'; otherwise it returns
\* null, and it raises no error.
C4_ParsePNGContract ==
    [][pc = "call" => /\ error' = "none"
                      /\ (png' # Null) <=> PngContract(buf)]_vars

C4_Witness ==
    /\ pc = "jpeg"
    /\ png = Null
    /\ Len(buf) = 24
    /\ Bytes(buf, 0, 8) = sig
    /\ Bytes(buf, 12, 4) = <<73, 72, 0, 82>>

\* the big-endian unsigned 32-bit number at bytes i..i+3 of b
BigEndian32(b, i) == Num(b[i + 1] * 256 + b[i + 2], b[i + 3] * 256 + b[i + 4])

\* the PNG scenario of the specification
ExamplePNG == <<137, 80, 78, 71, 13, 10, 26, 10, 0, 0, 0, 13, 73, 72, 68, 82,
                0, 0, 1, 0, 0, 0, 0, 200>>

\* C5: when parsePNG matches, width is the big-endian unsigned 32-bit integer
\* of bytes 16..19 and height that of bytes 20..23, in 0..2^32-1; the example
\* header gives png, 256, 200.
C5_PngDimensions ==
    /\ png # Null =>
           /\ png[1].width = BigEndian32(buf, 16) /\ IsUint32(png[1].width)
           /\ png[1].height = BigEndian32(buf, 20) /\ IsUint32(png[1].height)
    /\ (Returned /\ StartsWith(buf, ExamplePNG)) =>
           /\ result.format = "png"
           /\ result.width = Some(Num(0, 256))
           /\ result.height = Some(Num(0, 200))

C5_Witness ==
    /\ Returned
    /\ png # Null
    /\ result.width = Some(Num(65535, 65535))
    /\ result.height = Some(Num(258, 772))

\* the scan is at a marker whose length field is in the buffer and at least 2
AtValidSegment ==
    IF pc = "pad" /\ marker # 255 /\ marker # 217 /\ offset + 4 <= Len(buf)
    THEN buf[offset + 3] * 256 + buf[offset + 4] >= 2
    ELSE FALSE

\* the JPEG scenario of the specification
ExampleJPEG == <<255, 216, 255, 192, 0, 11, 8, 0, 100, 0, 200>>

\* a SOF2 frame of 772 x 258 followed by a SOF0 frame of 200 x 100
TwoFrames == SOI \o Segment(194, 11, FrameB) \o Segment(192, 11, FrameA)

\* C6: the first recognised SOF marker the scan reaches wins: with the length
\* field at L, height is the 16-bit big-endian value at L+3..L+4 and width the
\* one at L+5..L+6; the scan stops there and a later SOF has no effect; the
\* example stream gives jpeg, 200, 100.
C6_FirstSofWins ==
    [][ /\ (jpg = Null /\ jpg' # Null) =>
               LET L == offset + 2
               IN  /\ pc = "pad" /\ marker \in JPEG_SOF_MARKERS
                   /\ jpg'[1].height = Num(0, buf[L + 4] * 256 + buf[L + 5])
                   /\ jpg'[1].width = Num(0, buf[L + 6] * 256 + buf[L + 7])
                   /\ pc' = "jpeg_ret"
        /\ (AtValidSegment /\ marker \in JPEG_SOF_MARKERS) => pc' \in {"jpeg_ret", "ret"}
        /\ jpg # Null => (jpg' = jpg /\ pc' \notin {"scan", "pad"})
        /\ (pc' = "ret" /\ StartsWith(buf, ExampleJPEG)) =>
               /\ error' = "none"
               /\ result'.format = "jpeg"
               /\ result'.width = Some(Num(0, 200))
               /\ result'.height = Some(Num(0, 100))
        /\ (pc' = "ret" /\ StartsWith(buf, TwoFrames)) =>
               /\ error' = "none"
               /\ result'.format = "jpeg"
               /\ result'.width = Some(Num(0, 772))
               /\ result'.height = Some(Num(0, 258)) ]_vars

C6_Witness ==
    /\ Returned
    /\ buf = TwoFrames
    /\ jpg = Some([format |-> "jpeg", width |-> Num(0, 772), height |-> Num(0, 258)])
    /\ result.format = "jpeg"
    /\ offset = 4

\* the marker codes the specification lists as frame headers
ListedSofCodes == {192, 193, 194, 195, 197, 198, 199, 201, 202, 203, 205, 206, 207}

\* C7: a marker is treated as a frame header exactly when its code is one of
\* C0,C1,C2,C3,C5,C6,C7,C9,CA,CB,CD,CE,CF; a segment with any other code (C4,
\* C8, CC, ...) never yields dimensions and is skipped by its length.
C7_SofMarkerSet ==
    [][ /\ (jpg = Null /\ jpg' # Null) => marker \in ListedSofCodes
        /\ AtValidSegment =>
               LET L == offset + 2
                   segLen == buf[L + 1] * 256 + buf[L + 2]
               IN  IF marker \in ListedSofCodes
                   THEN /\ pc' # "scan"
                        /\ L + 7 <= Len(buf) => jpg' # Null
                   ELSE /\ jpg' = Null
                        /\ pc' = "scan"
                        /\ offset' = L + segLen ]_vars

C7_Witness ==
    /\ pc = "scan"
    /\ marker = 204
    /\ offset = 22
    /\ jpg = Null
    /\ buf = SOI \o Segment(196, 4, <<0, 1>>) \o <<0>> \o Segment(204, 11, FrameA)

\* C8: inspectImageBuffer tries parsePNG first, then parseJPEG, then falls back
\* to unknown: when parsePNG matches, the result is png with the PNG dimensions
\* and parseJPEG is not run, whatever JPEG-like bytes the buffer holds; jpeg is
\* returned only when parsePNG did not match and parseJPEG did.
C8_PngFirst ==
    /\ png # Null => pc \in {"ret", "url", "base64"}
    /\ Returned =>
           /\ PngContract(buf) =>
                  /\ result.format = "png"
                  /\ result.width = Some(BigEndian32(buf, 16))
                  /\ result.height = Some(BigEndian32(buf, 20))
           /\ result.format = "jpeg" =>
                  /\ png = Null /\ jpg # Null
                  /\ result.width = Some(jpg[1].width)
                  /\ result.height = Some(jpg[1].height)
           /\ result.format = "unknown" => (png = Null /\ jpg = Null)

C8_Witness ==
    /\ Returned
    /\ result.format = "png"
    /\ Len(buf) > 24
    /\ Bytes(buf, 8, 4) = <<255, 216, 255, 192>>
    /\ StartsWith(Bytes(buf, 24, Len(buf) - 24), ExampleJPEG)

\* the buffers of the fallback case
C9_Case(b) ==
    \/ Len(b) < 4
    \/ /\ ~StartsWith(b, <<255, 216>>)
       /\ (Len(b) < 24 \/ ~StartsWith(b, <<137, 80, 78, 71, 13, 10, 26, 10>>))

\* C9: a buffer that does not start with FF D8 and is shorter than 24 bytes or
\* lacks the PNG signature, and any buffer shorter than 4 bytes, gives unknown,
\* null, null and its length.
C9_Fallback ==
    (pc \in {"ret", "url", "base64"} /\ C9_Case(buf)) =>
        /\ error = "none"
        /\ result = [format |-> "unknown", width |-> Null, height |-> Null,
                     size |-> Len(buf)]

C9_Witness ==
    /\ Returned
    /\ Len(buf) = 20
    /\ StartsWith(buf, sig)
    /\ Bytes(buf, 12, 4) = IHDR
    /\ result.format = "unknown"
    /\ result.size = 20

\* SOI, two well-formed DHT segments, EOI
DhtOnly == SOI \o Segment(196, 4, <<0, 1>>) \o Segment(196, 4, <<0, 1>>) \o <<255, 217>>

\* C10: when the scan reaches EOI (FF D9) before a recognised SOF it stops with
\* no match, even if a SOF segment follows; a stream of SOI, DHT segments and
\* EOI is classified unknown.
C10_EoiStops ==
    [][ /\ (pc = "pad" /\ marker = 217) => (jpg' = Null /\ pc' = "jpeg_ret")
        /\ (pc = "jpeg_ret" /\ marker = 217) => result'.format = "unknown"
        /\ (pc' = "ret" /\ buf = DhtOnly) =>
               (error' = "none" /\ result'.format = "unknown") ]_vars

C10_Witness ==
    /\ Returned
    /\ marker = 217
    /\ buf = SOI \o <<255, 217>> \o Segment(192, 11, FrameA)
    /\ result.format = "unknown"

\* the scan is at a non-EOI marker whose length field is in the buffer
AtLengthField == pc = "pad" /\ marker # 255 /\ marker # 217 /\ offset + 4 <= Len(buf)

\* the 16-bit big-endian value at bytes i, i+1 of b
BigEndian16(b, i) == b[i + 1] * 256 + b[i + 2]

\* an APP1 segment of length 1 followed by a well-formed SOF0 segment
BadLengthThenFrame == SOI \o Segment(225, 1, <<>>) \o Segment(192, 11, FrameA)

\* C11: a segment length of 0 or 1 read for any non-EOI marker, a recognised
\* SOF included, fails the scan at once with no match; nothing after it is
\* examined, not even a well-formed SOF segment.
C11_BadLengthFails ==
    [][ /\ (AtLengthField /\ BigEndian16(buf, offset + 2) < 2) =>
               (jpg' = Null /\ pc' = "jpeg_ret" /\ error' = "none")
        /\ (pc' = "ret" /\ StartsWith(buf, BadLengthThenFrame)) =>
               (error' = "none" /\ result'.format = "unknown") ]_vars

C11_Witness ==
    /\ Returned
    /\ buf = SOI \o Segment(192, 0, <<>>) \o Segment(193, 11, FrameB)
    /\ marker = 192
    /\ offset = 4
    /\ result.format = "unknown"

\* C12: when the scan reaches a recognised SOF marker whose precision, height
\* and width bytes (the 5 bytes after the length field) are not all in the
\* buffer, parseJPEG reports no match and does not throw; the same when the
\* length field itself is cut off.
C12_TruncatedFrameNoMatch ==
    [][ /\ (AtValidSegment /\ marker \in ListedSofCodes /\ offset + 2 + 7 > Len(buf)) =>
               (jpg' = Null /\ pc' = "jpeg_ret" /\ error' = "none")
        /\ (pc = "pad" /\ marker # 255 /\ marker # 217 /\ offset + 4 > Len(buf)) =>
               (jpg' = Null /\ pc' = "jpeg_ret" /\ error' = "none") ]_vars

\* C13: an FF at the last index, a run of FF padding up to the end, or a skip
\* landing at or past the end makes parseJPEG end the scan with no match
\* instead of reading the byte after the end.
C13_EndOfBufferNoMatch ==
    [][ /\ (pc = "scan" /\ offset >= Len(buf)) =>
               (jpg' = Null /\ pc' = "jpeg_ret" /\ error' = "none")
        /\ (pc = "scan" /\ offset = Len(buf) - 1 /\ buf[offset + 1] = 255) =>
               (jpg' = Null /\ pc' = "jpeg_ret" /\ error' = "none")
        /\ (pc = "pad" /\ marker = 255 /\ offset + 2 >= Len(buf)) =>
               (jpg' = Null /\ pc' = "jpeg_ret" /\ error' = "none") ]_vars

\* an APP0 segment whose payload holds FF C0 00 0B 08 00 05 00 06
SkippedFrame == SOI \o Segment(224, 11, FrameInPayload)

\* C18: at a marker that is neither EOI nor a recognised SOF the cursor moves
\* from the start of the length field by exactly segLen and the scan resumes
\* there: bytes inside the skipped segment are never read as markers, so an
\* FF C0 pair in its payload produces no dimensions.
C18_SkipBySegmentLength ==
    [][ /\ (AtValidSegment /\ marker \notin ListedSofCodes) =>
               /\ offset' = (offset + 2) + BigEndian16(buf, offset + 2)
               /\ pc' = "scan"
               /\ jpg' = Null
        /\ (pc' = "ret" /\ buf = SkippedFrame) =>
               (error' = "none" /\ result'.format = "unknown")
        /\ (pc' = "ret" /\ buf = SkippedFrame \o Segment(192, 11, FrameA)) =>
               /\ error' = "none"
               /\ result'.width = Some(Num(0, 200))
               /\ result'.height = Some(Num(0, 100)) ]_vars

C18_Witness ==
    /\ Returned
    /\ buf = SkippedFrame \o Segment(192, 11, FrameA)
    /\ result.format = "jpeg"
    /\ result.width = Some(Num(0, 200))
    /\ offset = 17

\* C19: bytes other than FF between segments are stepped over one at a time,
\* and a run of FF bytes followed by a non-FF byte is padding before one marker
\* whose code is that byte: FF ... FF C0 and a SOF body give the dimensions
\* that FF C0 and the same body give.
C19_PaddingAndFiller ==
    [][ /\ (pc = "scan" /\ offset < Len(buf) /\ pc' # "ret") =>
               IF buf[offset + 1] # 255
               THEN offset' = offset + 1 /\ pc' = "scan" /\ marker' = marker
               ELSE offset' = offset /\ pc' = "pad" /\ marker' = buf[offset + 2]
        /\ (pc = "pad" /\ marker = 255 /\ pc' # "ret") =>
               (offset' = offset + 1 /\ pc' = "pad" /\ marker' = buf[offset' + 2])
        /\ pc' = "pad" => (buf[offset' + 1] = 255 /\ marker' = buf[offset' + 2])
        /\ (pc' = "ret" /\ \E s \in Leads(MaxSegs) :
                              /\ \A i \in 1..Len(s) : s[i] = 255
                              /\ StartsWith(buf, SOI \o s \o Segment(192, 11, FrameA))) =>
               /\ error' = "none"
               /\ result'.format = "jpeg"
               /\ result'.width = Some(Num(0, 200))
               /\ result'.height = Some(Num(0, 100)) ]_vars

C19_Witness ==
    /\ Returned
    /\ MaxSegs >= 2
    /\ buf = SOI \o <<255, 255>> \o Segment(192, 11, FrameA)
    /\ result.format = "jpeg"
    /\ result.height = Some(Num(0, 100))
    /\ offset = 6

\* C20: after the initial SOI exactly the codes D8 and D9 are handled as
\* markers without a length; for every other code (D0-D7 and 00 included) the
\* two bytes after the marker are read as a segment length.
C20_LengthlessMarkers ==
    [][ (pc = "pad" /\ marker # 255) =>
            IF marker \in {216, 217}
            THEN \/ (marker = 217 /\ pc' = "jpeg_ret" /\ jpg' = Null)
                 \/ (marker = 216 /\ pc' = "scan" /\ offset' = offset + 2)
                 \/ (marker = 216 /\ offset + 2 >= Len(buf) /\ pc' = "jpeg_ret" /\ jpg' = Null)
            ELSE \/ (offset + 4 > Len(buf) /\ pc' = "jpeg_ret" /\ jpg' = Null)
                 \/ (offset + 4 <= Len(buf) /\ BigEndian16(buf, offset + 2) < 2
                       /\ pc' = "jpeg_ret" /\ jpg' = Null)
                 \/ (offset + 4 <= Len(buf) /\ BigEndian16(buf, offset + 2) >= 2
                       /\ marker \in ListedSofCodes /\ pc' \in {"jpeg_ret", "ret"})
                 \/ (offset + 4 <= Len(buf) /\ BigEndian16(buf, offset + 2) >= 2
                       /\ marker \notin ListedSofCodes /\ pc' = "scan"
                       /\ offset' = offset + 2 + BigEndian16(buf, offset + 2)) ]_vars

\* C15: the scan is one forward pass that terminates: the cursor never moves
\* back, it grows on every iteration of the outer loop (by 1 on a non-FF byte,
\* else by 2 plus a segment length of at least 2) and of the padding loop (by
\* 1), the scan ends once the cursor reaches the buffer length, and every call
\* leaves the scan.
C15_ForwardScanTerminates ==
    /\ [][ /\ pc \in {"scan", "pad"} => offset' >= offset
           /\ (pc = "scan" /\ pc' = "scan") => offset' = offset + 1
           /\ (pc = "pad" /\ pc' = "scan") =>
                  (/\ BigEndian16(buf, offset + 2) >= 2
                   /\ offset' = offset + 2 + BigEndian16(buf, offset + 2))
           /\ (pc = "pad" /\ pc' = "pad") => offset' = offset + 1
           /\ (pc = "scan" /\ offset >= Len(buf)) => pc' = "jpeg_ret" ]_vars
    /\ <>(pc \notin {"call", "jpeg", "scan", "pad"})

C15_Witness ==
    /\ pc = "jpeg_ret"
    /\ jpg = Null
    /\ buf = SOI \o <<0>> \o <<255>> \o Segment(196, 258, FrameA)
    /\ offset = 264

\* the mime the format alone determines, or fallback for unknown
ExpectedMime(fmt, fallback) ==
    CASE fmt = "png" -> Some("image/png")
      [] fmt = "jpeg" -> Some("image/jpeg")
      [] OTHER -> fallback

\* C16: mime follows the detected format: png gives image/png and jpeg gives
\* image/jpeg whatever content-type came with the response; unknown gives null
\* for base64 input and, for a URL, the content-type header or null without one.
C16_MimeFromFormat ==
    [][ /\ \A ct \in ContentTypes :
               (error = "none" /\ InspectFromUrl(ct)) =>
                   out'.mime = ExpectedMime(result.format, ct)
        /\ (error = "none" /\ InspectFromBase64) =>
               out'.mime = ExpectedMime(result.format, Null) ]_vars

C16_Witness ==
    /\ pc = "url"
    /\ error = "none"
    /\ result.format = "unknown"
    /\ Len(buf) = 24
    /\ out.mime = Some("text/html")

\* C14: inspectImageBuffer is a pure function of the bytes: no step of a call
\* writes the buffer, nothing is kept between calls, and a call on a byte
\* sequence returns what every earlier call on that sequence returned, whatever
\* calls ran in between.
C14_PureFunction ==
    [][ /\ pc # "ret" => buf' = buf
        /\ pc' = "ret" =>
               \A h \in seen' : h.buf = buf' => h.outcome = Outcome' ]_vars

C14_Witness ==
    /\ pc = "ret"
    /\ calls = 3
    /\ error = "none"
    /\ result.format = "jpeg"
    /\ Len(buf) = 13
    /\ \E h \in seen : h.buf = buf /\ h.outcome = Some(result)
    /\ \E h \in seen : h.buf = OtherBuffer

\* C17: the fetch handler answers ok: true, with status 200, only to a POST
\* request whose content type includes application/json, whose body parses and
\* names get_system_status, or inspect_image_asset with a string url or base64
\* param; a request that is not POST gets 405 whatever its body; a POST
\* request with a wrong content type, an invalid body, a missing or non-string
\* method, inspect_image_asset without such a param, or an unknown method gets
\* 400 with ok: false; and every call of the handler ends with a response.
C17_HandlerStatusCodes ==
    /\ [](pc = "done" =>
            /\ resp.ok <=> resp.status = 200
            /\ resp.ok =>
                   /\ req.httpMethod = "POST"
                   /\ Includes(req.contentType, "application/json")
                   /\ req.body.t = "object"
                   /\ req.body.method.t = "string"
                   /\ \/ req.body.method.v = "get_system_status"
                      \/ /\ req.body.method.v = "inspect_image_asset"
                         /\ req.body.params.t = "object"
                         /\ \/ req.body.params.url.t = "string"
                            \/ req.body.params.base64.t = "string"
            /\ req.httpMethod # "POST" => resp.status = 405 /\ ~resp.ok
            /\ (/\ req.httpMethod = "POST"
                /\ \/ ~Includes(req.contentType, "application/json")
                   \/ req.body.t # "object"
                   \/ req.body.method.t # "string"
                   \/ req.body.method.v = ""
                   \/ req.body.method.v \notin {"inspect_image_asset", "get_system_status"}
                   \/ /\ req.body.method.v = "inspect_image_asset"
                      /\ \/ req.body.params.t # "object"
                         \/ (req.body.params.url.t # "string" /\ req.body.params.base64.t # "string"))
               => resp.status = 400 /\ ~resp.ok)
    /\ <>(pc = "done")

C17_Witness ==
    /\ pc = "done"
    /\ resp.ok
    /\ req.body.method.v = "inspect_image_asset"
    /\ req.body.params.url.t = "number"
    /\ error = "none"
    /\ result.format = "jpeg"

\* C21: parseJPEG reads no segment byte beyond the length the segment
\* declares: at a recognised SOF marker whose declared length is under 7, so
\* that it does not cover precision, height and width, no dimensions are
\* extracted and parseJPEG reports no match.
C21_FrameWithinDeclaredLength ==
    [][ (AtLengthField /\ marker \in ListedSofCodes /\ BigEndian16(buf, offset + 2) < 7) =>
            jpg' = Null ]_vars

\* the result of trying parseJPEG before parsePNG on detector values p and j
JpegFirst(p, j, size) ==
    IF j # Null
    THEN [format |-> "jpeg", width |-> Some(j[1].width), height |-> Some(j[1].height), size |-> size]
    ELSE IF p # Null
    THEN [format |-> "png", width |-> Some(p[1].width), height |-> Some(p[1].height), size |-> size]
    ELSE [format |-> "unknown", width |-> Null, height |-> Null, size |-> size]

\* C22: no buffer is matched by both detectors: parsePNG matches only when
\* byte 0 is 89 and parseJPEG only when byte 0 is FF, parseJPEG applied to a
\* buffer that parsePNG matches returns null without an error, and trying
\* parseJPEG before parsePNG would give the result the code gives.
C22_DetectorsExclusive ==
    /\ ~(png # Null /\ jpg # Null)
    /\ png # Null => (buf[1] = 137 /\ error = "none")
    /\ jpg # Null => buf[1] = 255
    /\ (pc = "ret" /\ error = "none") => result = JpegFirst(png, jpg, Len(buf))

C22_Witness ==
    /\ pc = "ret"
    /\ png # Null
    /\ jpg = Null
    /\ Bytes(buf, 8, 4) = <<255, 216, 255, 192>>
    /\ Bytes(buf, 24, Len(buf) - 24) = SOI \o Segment(192, 11, FrameA) \o <<255, EOI>>
    /\ result.format = "png"

\* chunk-length fields and trailing bytes a buffer is varied by
VariedChunkLengths == { <<0, 0, 0, 13>>, <<0, 0, 0, 0>>, <<255, 255, 255, 255>>, <<0, 0, 0, 12>> }
VariedTails == { <<>>, <<0>>, <<255, 216, 255, 192>> }

\* C23: the result of parsePNG depends only on whether the buffer has at least
\* 24 bytes and on bytes 0..7 and 12..23: a shorter buffer gives null, and a
\* buffer of at least 24 bytes gives what every buffer gives that has the same
\* bytes 0..7 and 12..23, whatever its chunk-length field (bytes 8..11) and
\* whatever follows byte 23; the declared chunk length is not validated.
C23_ChunkLengthIgnored ==
    [][ pc = "call" =>
            IF Len(buf) < 24 THEN png' = Null
            ELSE \A cl \in VariedChunkLengths, t \in VariedTails :
                     parsePNG(Bytes(buf, 0, 8) \o cl \o Bytes(buf, 12, 12) \o t) = png' ]_vars

C23_Witness ==
    /\ pc = "ret"
    /\ png # Null
    /\ Len(buf) = 25
    /\ Bytes(buf, 8, 4) = <<0, 0, 0, 0>>
    /\ result.format = "png"
    /\ result.width = Some(Num(0, 256))

====
